---- MODULE Spec2Model ----
(***************************************************************************)
(* A model of the notes application of src/optimized-notes.js: the class   *)
(* NotesApp (availability probe, snapshot load, debounced snapshot save,   *)
(* delegated click / input / paste routing, destroy), the host's timer     *)
(* queue it schedules callbacks on, the key-value medium (localStorage)    *)
(* and the editable container (the Document Tree) it reads and writes.     *)
(*                                                                         *)
(* The program is single-threaded: every handler runs to completion, so    *)
(* every handler is one action.  Suspension happens only in the host's     *)
(* timer queue (the debounce timer and the post-paste yield).              *)
(***************************************************************************)
EXTENDS Integers, Sequences, FiniteSets

(***************************************************************************)
(* Bounds of the model.                                                    *)
(***************************************************************************)
\* one step of the clock, in milliseconds
TickMs == 150
\* the clock stops advancing here
MaxTime == 750
\* the container holds at most this many Items
MaxNotes == 2
\* an Item's text is one of 0..MaxText (0: the empty text createNote leaves)
MaxText == 1
\* post-paste yields that may be queued at once
MaxPasteYields == 1
\* user and environment events (clicks, edits, pastes, destroy, reloads,
\* availability changes) in one run
MaxEvents == 3

(***************************************************************************)
(* Program constants.                                                      *)
(***************************************************************************)
\* this.debounceDelay = 300
debounceDelay == 300

(***************************************************************************)
(* The Document Tree.  An Item is the <p class="input-box"> createNote     *)
(* builds: its data-note-id, its text, and where its delete control        *)
(* <img class="delete-btn"> sits.  createNote appends the control as a     *)
(* direct child ("child").  The Item is a contenteditable rich-text        *)
(* surface, so the user's own editing can wrap the Item's inline content,  *)
(* the control included, in a formatting element ("wrapped"), and the      *)
(* control can be gone ("none").                                           *)
(***************************************************************************)
Texts == 0..MaxText
Ctls == {"child", "wrapped", "none"}

NewItem(id) == [id |-> id, text |-> 0, ctl |-> "child"]

(***************************************************************************)
(* innerHTML.  Reading it serializes the tree to a string, here a sequence *)
(* of tokens; assigning it parses the string back into a tree.             *)
(***************************************************************************)
Tok(k, v) == [k |-> k, v |-> v]

CtlTokens(c) ==
    IF c = "child" THEN <<Tok("img", 0)>>
    ELSE IF c = "wrapped" THEN <<Tok("b", 0), Tok("img", 0), Tok("endb", 0)>>
    ELSE <<>>

SerItem(it) ==
    <<Tok("p", it.id), Tok("text", it.text)>> \o CtlTokens(it.ctl) \o <<Tok("endp", 0)>>

RECURSIVE Serialize(_)
Serialize(tree) ==
    IF tree = <<>> THEN <<>>
    ELSE SerItem(Head(tree)) \o Serialize(Tail(tree))

\* the tokens of s from position i on
Rest(s, i) == SubSeq(s, i, Len(s))

RECURSIVE Parse(_)
Parse(s) ==
    IF Len(s) < 3 THEN <<>>
    ELSE LET id == s[1].v
             text == s[2].v
             c == IF s[3].k = "img" THEN "child"
                  ELSE IF s[3].k = "b" THEN "wrapped"
                  ELSE "none"
             used == IF c = "child" THEN 4 ELSE IF c = "wrapped" THEN 6 ELSE 3
         IN <<[id |-> id, text |-> text, ctl |-> c]>> \o Parse(Rest(s, used + 1))

(***************************************************************************)
(* The medium.  The value under the key "notes" is unset (getItem gives    *)
(* null) or a string.                                                      *)
(***************************************************************************)
MediumStates == {"ok", "full", "blocked"}

Unset == [has |-> FALSE, val |-> <<>>]
Value(s) == [has |-> TRUE, val |-> s]

VARIABLES
    pc,             \* "loading": before DOMContentLoaded; "running"; "inert": init returned early
    domOk,          \* the page holds .notes-container and .btn
    staticContent,  \* the container's content in the page's markup
    notesContainer,          \* the Document Tree: notesContainer's children
    stored,         \* the medium's value under "notes"
    hasTestEntry,   \* the medium holds an entry under the probe's key "test"
    probedOk,       \* some probe of this session has reported true
    medium,         \* the medium's condition: "ok", "full" (every setItem throws
                    \* QuotaExceededError), "blocked" (every setItem throws another error)
    now,            \* the clock (Date.now and the timer queue's time)
    timers,         \* the host's pending debounce timers
    debounceTimer,  \* this.debounceTimer: 0 (null) or a timer handle
    pasteYields,    \* the host's pending setTimeout(..., 0) callbacks of paste
    destroyed,      \* destroy() has been called on this instance
    lastEvent,      \* what the latest step did (a log record)
    lastReqAt,      \* time of the latest updateStorage call (0: none yet)
    burstCalls,     \* updateStorage calls of the current burst
    burstWrites,    \* setItem("notes") calls since the current burst began
    burstGated,     \* some call of the current burst saw the probe report false
    burstCancelled, \* destroy cancelled the timer of the current burst
    events          \* user and environment events so far

vars == <<pc, domOk, staticContent, notesContainer, stored, hasTestEntry, probedOk, medium, now,
          timers, debounceTimer, pasteYields, destroyed, lastEvent, lastReqAt,
          burstCalls, burstWrites, burstGated, burstCancelled, events>>

\* A burst is a maximal run of updateStorage calls each less than debounceDelay
\* after the one before it.
burstVars == <<lastReqAt, burstCalls, burstWrites, burstGated, burstCancelled>>

NoEvent ==
    [op |-> "none", target |-> "none", idx |-> 0, probe |-> "none",
     probeThrew |-> "none", reqs |-> 0,
     wrote |-> "none", availAtWrite |-> TRUE, alerts |-> 0, read |-> "none",
     stale |-> FALSE, treeMoved |-> FALSE, uncaught |-> FALSE]

Init ==
    /\ pc = "loading"
    /\ domOk \in BOOLEAN
    \* the page's markup holds no Item, or one Item (identifier 0)
    /\ staticContent \in {<<>>, <<NewItem(0)>>}
    /\ notesContainer = staticContent
    /\ stored = Unset
    /\ hasTestEntry \in BOOLEAN
    /\ probedOk = FALSE
    /\ medium \in MediumStates
    /\ now = TickMs
    /\ timers = {}
    /\ debounceTimer = 0
    /\ pasteYields = 0
    /\ destroyed = FALSE
    /\ lastEvent = NoEvent
    /\ lastReqAt = 0
    /\ burstCalls = 0
    /\ burstWrites = 0
    /\ burstGated = FALSE
    /\ burstCancelled = FALSE
    /\ events = 0

\* a step that is one more user or environment event
CountEvent == events < MaxEvents /\ events' = events + 1

(***************************************************************************)
(* The host's timer queue.  A pending debounce timer is a record: its      *)
(* handle, the time it is due, and two log fields (stale: an updateStorage *)
(* call was made after the one that scheduled it; snap: the container's    *)
(* serialization when it was scheduled).                                   *)
(***************************************************************************)
\* setTimeout's return value: a positive handle no pending timer has
FreshHandle(queue) ==
    LET used == {t.id : t \in queue}
    IN CHOOSE i \in 1..(Cardinality(used) + 1) :
          i \notin used /\ \A j \in 1..(i - 1) : j \in used

ClearTimeoutNoop(queue, handle) == queue

\* clearTimeout(handle)
ClearTimeout(queue, handle) == {t \in queue : t.id # handle}

\* if (this.debounceTimer) clearTimeout(this.debounceTimer)
CancelPending(queue, handle) ==
    IF handle # 0 THEN ClearTimeout(queue, handle) ELSE queue

DueAtOnce == now

\* setTimeout(..., this.debounceDelay): the time the new timer is due
DueTime == now + debounceDelay

MarkStale(queue) == {[t EXCEPT !.stale = TRUE] : t \in queue}

DebouncePending == timers # {}

(***************************************************************************)
(* isLocalStorageAvailable: setItem("test","test"), removeItem("test"),    *)
(* true; false when the write throws.  A successful probe leaves no entry  *)
(* under "test".                                                           *)
(***************************************************************************)
isLocalStorageAvailable == medium = "ok"

\* what the probe's setItem threw
ProbeThrew == IF medium = "full" THEN "quota" ELSE IF medium = "blocked" THEN "other" ELSE "none"

ProbeKeyIsNotes == "notes"

\* const test = 'test': the key the probe writes and removes
ProbeKey == "test"

\* what the probe does to the medium: a successful probe leaves no entry
\* under its key, a probe whose setItem throws changes nothing
ProbeEffect ==
    /\ IF ProbeKey = "notes"
       THEN /\ stored' = IF isLocalStorageAvailable THEN Unset ELSE stored
            /\ UNCHANGED hasTestEntry
       ELSE /\ hasTestEntry' = IF isLocalStorageAvailable THEN FALSE ELSE hasTestEntry
            /\ UNCHANGED stored
    /\ probedOk' = (probedOk \/ isLocalStorageAvailable)

ProbeLog == IF isLocalStorageAvailable THEN "yes" ELSE "no"

(***************************************************************************)
(* updateStorage, called by a handler after it has changed the tree (so    *)
(* the tree it sees is notes').                                            *)
(***************************************************************************)
NoGuard(avail) == FALSE

\* if (!this.isLocalStorageAvailable()) return;
probeGuard(avail) == ~avail

updateStorage ==
    LET newBurst == lastReqAt = 0 \/ now - lastReqAt >= debounceDelay
    IN /\ ProbeEffect
       /\ IF probeGuard(isLocalStorageAvailable)
          THEN /\ timers' = MarkStale(timers)
               /\ UNCHANGED debounceTimer
          ELSE LET kept == MarkStale(CancelPending(timers, debounceTimer))
                   h == FreshHandle(kept)
               IN /\ timers' = kept \cup {[id |-> h, due |-> DueTime,
                                           stale |-> FALSE, snap |-> Serialize(notesContainer')]}
                  /\ debounceTimer' = h
       /\ lastReqAt' = now
       /\ burstCalls' = IF newBurst THEN 1 ELSE burstCalls + 1
       /\ burstWrites' = IF newBurst THEN 0 ELSE burstWrites
       /\ burstGated' = ((~newBurst /\ burstGated) \/ ~isLocalStorageAvailable)
       /\ burstCancelled' = (~newBurst /\ burstCancelled /\ ~isLocalStorageAvailable)

Requested(op, target, idx) ==
    [NoEvent EXCEPT !.op = op, !.target = target, !.idx = idx,
                    !.probe = ProbeLog, !.probeThrew = ProbeThrew, !.reqs = 1]

Ignored(op, target, idx) ==
    [NoEvent EXCEPT !.op = op, !.target = target, !.idx = idx]

(***************************************************************************)
(* Startup: DOMContentLoaded constructs the NotesApp; the constructor runs *)
(* init, which probes, loads and attaches the listeners.                   *)
(***************************************************************************)
NotNull(v) == v.has

\* if (savedNotes): null and the empty string are falsy
Truthy(v) == v.has /\ v.val # <<>>

\* loadNotes' effect on the container when getItem("notes") returned v
loadNotes(v, tree) == IF Truthy(v) THEN Parse(v.val) ELSE tree

AlertOnProbeFailure(probeOk) == IF probeOk THEN 0 ELSE 1

\* init's notices are console.error and console.warn, never alert: the
\* notifications startup shows, given the probe's report
startupAlerts(probeOk) == 0

LoadPropagates == FALSE

\* loadNotes' try { ... } catch (error) { console.error(...) }: a throwing
\* getItem is caught inside loadNotes
loadNotesCatches == TRUE

init(readOutcome) ==
    /\ pc = "loading"
    /\ IF ~domOk
       THEN /\ pc' = "inert"
            /\ lastEvent' = Ignored("startup", "none", 0)
            /\ UNCHANGED <<notesContainer, hasTestEntry, probedOk, stored>>
       ELSE LET thrown == readOutcome = "throws" /\ ~loadNotesCatches
            IN \* an exception out of loadNotes would leave init before
               \* attachEventListeners
               /\ pc' = IF thrown THEN "inert" ELSE "running"
               /\ ProbeEffect
               /\ notesContainer' = IF readOutcome = "ok" THEN loadNotes(stored', notesContainer)
                                     ELSE notesContainer
               /\ lastEvent' = [NoEvent EXCEPT !.op = "startup", !.probe = ProbeLog,
                                  !.probeThrew = ProbeThrew,
                                  !.read = IF readOutcome = "throws" THEN "throws"
                                           ELSE IF stored'.has THEN "value" ELSE "absent",
                                  !.uncaught = thrown,
                                  !.alerts = startupAlerts(isLocalStorageAvailable)]
    /\ UNCHANGED <<domOk, staticContent, medium, now, timers,
                   debounceTimer, pasteYields, destroyed, burstVars>>

(***************************************************************************)
(* createNote (the create button's click listener).                        *)
(***************************************************************************)
\* Date.now()
DateNow == now

PrependChild(tree, it) == <<it>> \o tree

\* this.notesContainer.appendChild(inputBox)
appendChild(tree, it) == Append(tree, it)

createNote ==
    /\ pc = "running"
    /\ notesContainer' = appendChild(notesContainer, NewItem(DateNow))
    /\ updateStorage
    /\ lastEvent' = Requested("create", "button", Len(notesContainer) + 1)
    /\ UNCHANGED <<pc, domOk, staticContent, medium, now, pasteYields, destroyed>>

(***************************************************************************)
(* handleNotesClick and deleteNote.                                        *)
(***************************************************************************)
RemoveLast(tree, i) == SubSeq(tree, 1, Len(tree) - 1)

\* element.remove() on the container's i-th child
RemoveAt(tree, i) == SubSeq(tree, 1, i - 1) \o SubSeq(tree, i + 1, Len(tree))

\* target.parentElement.remove(), target being the delete control of Item i:
\* the control's parent is the Item, or the element that wraps the control
removeParentElement(tree, i) ==
    IF tree[i].ctl = "child" THEN RemoveAt(tree, i)
    ELSE [tree EXCEPT ![i].ctl = "none"]

\* a click on Item i's delete control: IMG with class delete-btn
handleNotesClickDelete(i) ==
    /\ pc = "running"
    /\ i \in 1..Len(notesContainer)
    /\ notesContainer[i].ctl # "none"
    /\ notesContainer' = removeParentElement(notesContainer, i)
    /\ updateStorage
    /\ lastEvent' = Requested("click", "ctl", i)
    /\ UNCHANGED <<pc, domOk, staticContent, medium, now, pasteYields, destroyed>>

\* a click on any other target: Item i's surface (i > 0) or the container (i = 0)
handleNotesClickOther(i) ==
    /\ pc = "running"
    /\ i \in 0..Len(notesContainer)
    /\ lastEvent' = Ignored("click", IF i = 0 THEN "container" ELSE "surface", i)
    /\ UNCHANGED <<pc, domOk, staticContent, notesContainer, stored, hasTestEntry, probedOk, medium,
                   now, timers, debounceTimer, pasteYields, destroyed, burstVars>>

(***************************************************************************)
(* handleNotesInput.  The user's edit of Item i has changed the tree when  *)
(* the input event is delivered; its target is the Item (class input-box). *)
(***************************************************************************)
\* what an edit may make of an Item's control: a control that is a direct
\* child may get wrapped in a formatting element
CtlEdits(c) == IF c = "child" THEN {"child", "wrapped"} ELSE {c}

AnyTarget(target) == TRUE

\* target.classList.contains('input-box'): the Items carry the class
hasInputBoxClass(target) == target = "surface"

\* handleNotesInput's body for an event on the given target
routeInput(target, idx) ==
    IF hasInputBoxClass(target)
    THEN /\ updateStorage
         /\ lastEvent' = Requested("input", target, idx)
    ELSE /\ lastEvent' = Ignored("input", target, idx)
         /\ UNCHANGED <<hasTestEntry, probedOk, stored, timers, debounceTimer, burstVars>>

handleNotesInput(i, t, c) ==
    /\ pc = "running"
    /\ i \in 1..Len(notesContainer)
    /\ c \in CtlEdits(notesContainer[i].ctl)
    /\ <<t, c>> # <<notesContainer[i].text, notesContainer[i].ctl>>
    /\ notesContainer' = [notesContainer EXCEPT ![i].text = t, ![i].ctl = c]
    /\ routeInput("surface", i)
    /\ UNCHANGED <<pc, domOk, staticContent, medium, now, pasteYields, destroyed>>

\* an input event whose target has no class input-box
handleNotesInputOther ==
    /\ pc = "running"
    /\ UNCHANGED notesContainer
    /\ routeInput("other", 0)
    /\ UNCHANGED <<pc, domOk, staticContent, medium, now, pasteYields, destroyed>>

(***************************************************************************)
(* paste: the listener queues a callback with setTimeout(..., 0); the      *)
(* paste's default insertion into Item i follows in the same task.  The    *)
(* callback calls updateStorage.                                           *)
(***************************************************************************)
InsertionSuppressed(tree, i, t) == tree

\* the paste's default action (the listener calls no preventDefault): Item
\* i's text becomes t
defaultInsertion(tree, i, t) == [tree EXCEPT ![i].text = t]

QueueNothing(n) == n

\* setTimeout(() => this.updateStorage(), 0)
QueueYield(n) == n + 1

pasteListener(i, t) ==
    /\ pc = "running"
    /\ i \in 1..Len(notesContainer)
    /\ pasteYields < MaxPasteYields
    /\ t \in Texts \ {notesContainer[i].text}
    /\ pasteYields' = QueueYield(pasteYields)
    /\ notesContainer' = defaultInsertion(notesContainer, i, t)
    /\ lastEvent' = Ignored("paste", "surface", i)
    /\ UNCHANGED <<pc, domOk, staticContent, stored, hasTestEntry, probedOk, medium, now,
                   timers, debounceTimer, destroyed, burstVars>>

pasteCallback ==
    /\ pasteYields > 0
    /\ pasteYields' = pasteYields - 1
    /\ UNCHANGED notesContainer
    /\ updateStorage
    /\ lastEvent' = Requested("pasteYield", "none", 0)
    /\ UNCHANGED <<pc, domOk, staticContent, medium, now, destroyed>>

(***************************************************************************)
(* The debounce timer's callback.                                          *)
(***************************************************************************)
\* what setItem("notes", ...) may do: succeed, throw QuotaExceededError (the
\* snapshot is too large), throw another error.  A full or blocked medium
\* rejects every write.
WriteOutcomes ==
    IF medium = "ok" THEN {"ok", "quota", "other"}
    ELSE IF medium = "full" THEN {"quota"}
    ELSE {"other"}

\* the snapshot the callback of timer t writes
ProducerStale(t) == t.snap

\* this.notesContainer.innerHTML, read when the callback runs
Producer(t) == Serialize(notesContainer)

CaughtQuotaOnly(outcome) == outcome = "quota"

\* try { setItem } catch (error) { ... }: the catch clause takes every error
\* and rethrows none
Caught(outcome) == TRUE

AlertsNever(outcome) == 0

AlertsOnAnyError(outcome) == IF outcome = "ok" THEN 0 ELSE 1

\* if (error.name === 'QuotaExceededError') alert(...)
AlertsFor(outcome) == IF outcome = "quota" THEN 1 ELSE 0

timerCallback(t, outcome) ==
    /\ t \in timers
    /\ now >= t.due
    /\ outcome \in WriteOutcomes
    /\ timers' = timers \ {t}
    /\ stored' = IF outcome = "ok" THEN Value(Producer(t)) ELSE stored
    /\ burstWrites' = burstWrites + 1
    /\ lastEvent' = [NoEvent EXCEPT !.op = "fire", !.wrote = outcome,
                       !.availAtWrite = isLocalStorageAvailable, !.alerts = AlertsFor(outcome),
                       !.stale = t.stale, !.treeMoved = (Serialize(notesContainer) # t.snap),
                       !.uncaught = (outcome # "ok" /\ ~Caught(outcome))]
    /\ UNCHANGED <<pc, domOk, staticContent, notesContainer, hasTestEntry, probedOk, medium, now,
                   debounceTimer, pasteYields, destroyed, lastReqAt, burstCalls,
                   burstGated, burstCancelled>>

(***************************************************************************)
(* destroy.                                                                *)
(***************************************************************************)
destroy ==
    /\ pc = "running"
    /\ timers' = CancelPending(timers, debounceTimer)
    /\ destroyed' = TRUE
    /\ burstCancelled' = (burstCancelled \/ timers' # timers)
    /\ lastEvent' = Ignored("destroy", "none", 0)
    /\ UNCHANGED <<pc, domOk, staticContent, notesContainer, stored, hasTestEntry, probedOk, medium,
                   now, debounceTimer, pasteYields, lastReqAt, burstCalls, burstWrites,
                   burstGated>>

(***************************************************************************)
(* The environment: the page is reloaded (its timers die with it and the   *)
(* container is the markup's again), time passes, the medium's             *)
(* availability changes.                                                   *)
(***************************************************************************)
Reload ==
    /\ pc # "loading"
    /\ pc' = "loading"
    /\ notesContainer' = staticContent
    /\ timers' = {}
    /\ debounceTimer' = 0
    /\ pasteYields' = 0
    /\ destroyed' = FALSE
    /\ lastEvent' = Ignored("reload", "none", 0)
    /\ lastReqAt' = 0
    /\ burstCalls' = 0
    /\ burstWrites' = 0
    /\ burstGated' = FALSE
    /\ burstCancelled' = FALSE
    /\ probedOk' = FALSE
    /\ UNCHANGED <<domOk, staticContent, stored, hasTestEntry, medium, now>>

\* the clock advances by one step
TimePasses ==
    /\ now' = now + TickMs
    /\ lastEvent' = Ignored("tick", "none", 0)
    /\ UNCHANGED <<pc, domOk, staticContent, notesContainer, stored, hasTestEntry, probedOk, medium,
                   timers, debounceTimer, pasteYields, destroyed, burstVars>>

Tick ==
    /\ now + TickMs <= MaxTime
    /\ TimePasses

MediumChange(m) ==
    /\ m \in MediumStates \ {medium}
    /\ medium' = m
    /\ lastEvent' = Ignored("medium", "none", 0)
    /\ UNCHANGED <<pc, domOk, staticContent, notesContainer, stored, hasTestEntry, probedOk, now,
                   timers, debounceTimer, pasteYields, destroyed, burstVars>>

(***************************************************************************)
(* The program under its environment: the host delivers at most MaxEvents  *)
(* user and environment events, and the page shows at most MaxNotes Items. *)
(***************************************************************************)
Next ==
    \/ UNCHANGED events /\ \E r \in {"ok", "throws"} : init(r)
    \/ CountEvent /\ Len(notesContainer) < MaxNotes /\ createNote
    \/ CountEvent /\ \E i \in 1..MaxNotes : handleNotesClickDelete(i)
    \/ CountEvent /\ \E i \in 0..MaxNotes : handleNotesClickOther(i)
    \/ CountEvent /\ \E i \in 1..MaxNotes : \E t \in Texts : \E c \in Ctls :
                         handleNotesInput(i, t, c)
    \/ CountEvent /\ handleNotesInputOther
    \/ CountEvent /\ \E i \in 1..MaxNotes : \E t \in Texts : pasteListener(i, t)
    \/ UNCHANGED events /\ pasteCallback
    \/ UNCHANGED events /\ \E t \in timers : \E o \in {"ok", "quota", "other"} :
                               timerCallback(t, o)
    \/ CountEvent /\ destroy
    \/ CountEvent /\ Reload
    \/ UNCHANGED events /\ Tick
    \/ CountEvent /\ \E m \in MediumStates : MediumChange(m)

Spec == Init /\ [][Next]_vars

C2_Freshness ==
    (lastEvent.op = "fire" /\ lastEvent.wrote = "ok") =>
        stored = Value(Serialize(notesContainer))

\* a successful fire of a timer scheduled when the tree was another one
C2_Witness ==
    /\ lastEvent.op = "fire"
    /\ lastEvent.wrote = "ok"
    /\ lastEvent.treeMoved

(***************************************************************************)
(* C3.  Single-slot timer: in every reachable state at most one debounce   *)
(* timer is pending.                                                       *)
(***************************************************************************)
C3_SingleTimer == Cardinality(timers) <= 1

\* an updateStorage call has just superseded the timer of an earlier call
C3_Witness ==
    /\ lastEvent.reqs = 1
    /\ lastEvent.probe = "yes"
    /\ burstCalls >= 2
    /\ ~burstGated
    /\ Cardinality(timers) = 1

(***************************************************************************)
(* C4.  As claimed: a timer that fires was scheduled by the latest         *)
(* updateStorage call; no updateStorage call was made after the one that   *)
(* scheduled it, whatever the probe reported to that later call.           *)
(***************************************************************************)
C4_AsClaimed == lastEvent.op = "fire" => ~lastEvent.stale

(***************************************************************************)
(* C5.  As claimed: setItem("notes") is attempted only while the medium    *)
(* is available at the time of the attempt.                                *)
(***************************************************************************)
C5_AsClaimed == lastEvent.wrote # "none" => lastEvent.availAtWrite

(***************************************************************************)
(* C6.  As claimed: when the probe reports unavailable at startup,         *)
(* loadNotes calls no getItem("notes") and the tree stays the markup's.    *)
(***************************************************************************)
C6_AsClaimed ==
    (lastEvent.op = "startup" /\ lastEvent.probe = "no") =>
        (lastEvent.read = "none" /\ notesContainer = staticContent)

(***************************************************************************)
(* C7.  As claimed: every setItem on the medium that throws                *)
(* QuotaExceededError, the probe's included, shows exactly one             *)
(* notification.                                                           *)
(***************************************************************************)
C7_AsClaimed ==
    (lastEvent.wrote = "quota" \/ lastEvent.probeThrew = "quota") =>
        lastEvent.alerts = 1

(***************************************************************************)
(* C7 as amended.  Quota surfacing: a step in which setItem("notes")       *)
(* throws QuotaExceededError shows exactly one notification, schedules no  *)
(* timer and no post-paste yield, and makes exactly that one write         *)
(* attempt.                                                                *)
(***************************************************************************)
C7_QuotaSurfacing ==
    [][lastEvent'.wrote = "quota" =>
          /\ lastEvent'.alerts = 1
          /\ timers' \subseteq timers
          /\ timers' # timers
          /\ timers' = {}
          /\ debounceTimer' = debounceTimer
          /\ pasteYields' = pasteYields
          /\ burstWrites' = burstWrites + 1]_vars

\* a write has just failed with QuotaExceededError on an available medium
C7_Witness ==
    /\ lastEvent.wrote = "quota"
    /\ lastEvent.availAtWrite
    /\ timers = {}

(***************************************************************************)
(* C8.  As claimed: after a startup whose getItem("notes") returned the    *)
(* saved string s, the tree's serialization is s, for every s (the empty   *)
(* string included) and every content the container held before.           *)
(***************************************************************************)
C8_AsClaimed ==
    (lastEvent.op = "startup" /\ lastEvent.read = "value") =>
        Serialize(notesContainer) = stored.val

(***************************************************************************)
(* C9.  As claimed: a click on Item i's delete control removes Item i and  *)
(* nothing else, keeps the other Items in order, and requests a save; a    *)
(* click on another target changes no Item and requests no save.           *)
(***************************************************************************)
C9_AsClaimed ==
    [][lastEvent'.op = "click" =>
          IF lastEvent'.target = "ctl"
          THEN notesContainer' = RemoveAt(notesContainer, lastEvent'.idx) /\ lastEvent'.reqs = 1
          ELSE notesContainer' = notesContainer /\ lastEvent'.reqs = 0]_vars

(***************************************************************************)
(* C10.  As claimed: the Items of the tree have pairwise distinct          *)
(* identifiers in every reachable state.                                   *)
(***************************************************************************)
C10_AsClaimed ==
    \A i, j \in 1..Len(notesContainer) : i # j => notesContainer[i].id # notesContainer[j].id

(***************************************************************************)
(* C11.  Create effect: every createNote step makes the tree one Item      *)
(* longer, the new Item is the last one, the Items that were there are     *)
(* unchanged and in the same order, and the step makes exactly one         *)
(* updateStorage call.                                                     *)
(***************************************************************************)
C11_CreateEffect ==
    [][lastEvent'.op = "create" =>
         /\ Len(notesContainer') = Len(notesContainer) + 1
         /\ SubSeq(notesContainer', 1, Len(notesContainer)) = notesContainer
         /\ lastEvent'.reqs = 1
         /\ lastReqAt' = now]_vars

\* a create on a tree that already holds an Item
C11_Witness ==
    /\ lastEvent.op = "create"
    /\ Len(notesContainer) >= 2
    /\ notesContainer[1] # notesContainer[2]

(***************************************************************************)
(* The scenario of one burst: the page's markup holds no Item and the      *)
(* medium is available; the user creates three Items, edits the second and *)
(* deletes the first, each operation less than debounceDelay after the one *)
(* before it (events counts the operations made; until the last one is     *)
(* made, time passes only as far as leaves the next one inside that        *)
(* interval).  Timers fire when the host decides, once due.                *)
(***************************************************************************)
ScenarioInit == Init /\ domOk /\ staticContent = <<>> /\ medium = "ok"

\* the time at is less than debounceDelay after the latest operation
InBurst(at) == lastReqAt = 0 \/ at - lastReqAt < debounceDelay

ScenarioNext ==
    \/ UNCHANGED events /\ \E r \in {"ok", "throws"} : init(r)
    \/ events < 3 /\ InBurst(now) /\ events' = events + 1 /\ createNote
    \/ events = 3 /\ InBurst(now) /\ events' = 4
          /\ \E t \in Texts : \E c \in Ctls : handleNotesInput(2, t, c)
    \/ events = 4 /\ InBurst(now) /\ events' = 5 /\ handleNotesClickDelete(1)
    \/ UNCHANGED events /\ \E t \in timers : \E o \in {"ok", "quota", "other"} :
                               timerCallback(t, o)
    \/ UNCHANGED events /\ (events = 5 \/ InBurst(now + TickMs)) /\ Tick

SpecScenario == ScenarioInit /\ [][ScenarioNext]_vars

(***************************************************************************)
(* C12.  In the scenario of one burst (three creates, an edit of the       *)
(* second Item, a delete of the first, each within debounceDelay of the    *)
(* one before): no write happens before the last operation; after it       *)
(* exactly one timer is pending, due one debounceDelay after the last      *)
(* operation; there is exactly one setItem("notes") in all, not before     *)
(* that time, and nothing is pending after it; and the snapshot it stores  *)
(* encodes exactly two Items, the edited second one and then the           *)
(* untouched third one.                                                    *)
(***************************************************************************)
C12_Scenario ==
    /\ burstWrites <= 1
    /\ events < 5 => burstWrites = 0 /\ ~stored.has
    /\ (events = 5 /\ burstWrites = 0) =>
          /\ Cardinality(timers) = 1
          /\ \A t \in timers : t.due = lastReqAt + debounceDelay
    /\ burstWrites = 1 =>
          /\ timers = {}
          /\ now >= lastReqAt + debounceDelay
          /\ (lastEvent.op = "fire" /\ lastEvent.wrote = "ok") => stored.has
    /\ stored.has =>
          LET snapshot == Parse(stored.val)
          IN /\ Len(snapshot) = 2
             /\ <<snapshot[1].text, snapshot[1].ctl>> # <<0, "child">>
             /\ snapshot[2] = NewItem(snapshot[2].id)
             /\ snapshot[1].id <= snapshot[2].id
             /\ snapshot[2].id <= lastReqAt
             /\ Serialize(snapshot) = stored.val

\* the burst's one write has succeeded
C12_Witness ==
    /\ events = 5
    /\ lastEvent.op = "fire"
    /\ lastEvent.wrote = "ok"
    /\ stored = Value(Serialize(notesContainer))
    /\ Len(notesContainer) = 2

(***************************************************************************)
(* C13.  Paste ordering.  The paste step itself calls updateStorage not    *)
(* at all: it queues one callback and the pasted content is inserted into  *)
(* the target Item exactly once (the other Items, and the Item's           *)
(* identifier and control, are as before).  The callback's step runs only  *)
(* after a paste, calls updateStorage once and leaves the tree as the      *)
(* insertion made it; when the probe reports true, the timer it schedules  *)
(* stands for that tree.  A successful write stores the tree of the time   *)
(* it runs, the pasted content included.                                   *)
(***************************************************************************)
C13_PasteOrdering ==
    [][/\ lastEvent'.op = "paste" =>
            LET i == lastEvent'.idx
            IN /\ lastEvent'.reqs = 0
               /\ lastReqAt' = lastReqAt
               /\ timers' = timers
               /\ pasteYields' = pasteYields + 1
               /\ Len(notesContainer') = Len(notesContainer)
               /\ notesContainer'[i].text # notesContainer[i].text
               /\ notesContainer' = [notesContainer EXCEPT ![i].text = notesContainer'[i].text]
       /\ lastEvent'.op = "pasteYield" =>
            /\ pasteYields > 0
            /\ pasteYields' = pasteYields - 1
            /\ lastEvent'.reqs = 1
            /\ notesContainer' = notesContainer
            /\ lastEvent'.probe = "yes" =>
                  \E t \in timers' : /\ t.id = debounceTimer'
                                      /\ ~t.stale
                                      /\ t.snap = Serialize(notesContainer)
       /\ (lastEvent'.op = "fire" /\ lastEvent'.wrote = "ok") =>
            stored' = Value(Serialize(notesContainer))]_vars

\* the callback of a paste, the session's only event, has asked for a save of
\* the tree that holds the pasted content
C13_Witness ==
    /\ lastEvent.op = "pasteYield"
    /\ lastEvent.probe = "yes"
    /\ events = 1
    /\ notesContainer # staticContent
    /\ \E t \in timers : t.snap = Serialize(notesContainer)

(***************************************************************************)
(* C14.  Input routing.  An input event on an Item's surface makes one     *)
(* updateStorage call, and the tree after the step differs from the tree   *)
(* before it in the edited Item's content only (the user's edit: the       *)
(* Item's identifier, the other Items and their order are as before).  An  *)
(* input event on any other target makes no updateStorage call and         *)
(* changes neither the tree nor the timers.                                *)
(***************************************************************************)
C14_InputRouting ==
    [][lastEvent'.op = "input" =>
         IF lastEvent'.target = "surface"
         THEN LET i == lastEvent'.idx
              IN /\ lastEvent'.reqs = 1
                 /\ lastReqAt' = now
                 /\ Len(notesContainer') = Len(notesContainer)
                 /\ notesContainer'[i].id = notesContainer[i].id
                 /\ \A j \in 1..Len(notesContainer) :
                       j # i => notesContainer'[j] = notesContainer[j]
         ELSE /\ lastEvent'.reqs = 0
              /\ notesContainer' = notesContainer
              /\ timers' = timers
              /\ debounceTimer' = debounceTimer
              /\ lastReqAt' = lastReqAt
              /\ hasTestEntry' = hasTestEntry]_vars

\* an edit of the second Item has asked for a save
C14_Witness ==
    /\ lastEvent.op = "input"
    /\ lastEvent.target = "surface"
    /\ lastEvent.idx = 2
    /\ lastEvent.reqs = 1
    /\ lastReqAt = now

(***************************************************************************)
(* C15.  Persistence failures never touch the tree: a step of the debounce *)
(* timer's callback, whatever its write does (succeed, throw               *)
(* QuotaExceededError, throw another error), leaves the tree unchanged,    *)
(* lets no exception out of the callback, and leaves the application       *)
(* running with its handlers attached, so that later create, delete and    *)
(* input events are served.                                                *)
(***************************************************************************)
C15_FailuresLeaveTree ==
    [][lastEvent'.op = "fire" =>
         /\ notesContainer' = notesContainer
         /\ ~lastEvent'.uncaught
         /\ pc = "running"
         /\ pc' = "running"
         /\ pasteYields' = pasteYields]_vars

\* a write of a non-empty tree has thrown an error other than quota
C15_Witness ==
    /\ lastEvent.op = "fire"
    /\ lastEvent.wrote = "other"
    /\ notesContainer # <<>>
    /\ pc = "running"

(***************************************************************************)
(* C16.  Load failure degrades silently: when getItem("notes") throws      *)
(* during loadNotes, the startup step lets no exception out, leaves the    *)
(* tree as it was (the page's markup, as for an absent snapshot), shows    *)
(* no notification, schedules nothing, and ends with the listeners         *)
(* attached (the running state, in which create, delete and input are      *)
(* served).                                                                *)
(***************************************************************************)
C16_LoadFailureSilent ==
    [][lastEvent'.read = "throws" =>
         /\ lastEvent'.op = "startup"
         /\ ~lastEvent'.uncaught
         /\ notesContainer' = notesContainer
         /\ notesContainer' = staticContent
         /\ lastEvent'.alerts = 0
         /\ timers' = timers
         /\ stored' = stored
         /\ pc' = "running"]_vars

\* a stored snapshot of another tree could not be read at startup
C16_Witness ==
    /\ lastEvent.op = "startup"
    /\ lastEvent.read = "throws"
    /\ Truthy(stored)
    /\ Parse(stored.val) # staticContent
    /\ notesContainer = staticContent
    /\ pc = "running"

(***************************************************************************)
(* C17.  Other save failures are swallowed: a step in which                *)
(* setItem("notes") throws an error that is not QuotaExceededError shows   *)
(* no notification, schedules no retry (the fired timer leaves the queue,  *)
(* no timer and no callback is added, this.debounceTimer is untouched),    *)
(* lets no exception out and leaves the value under "notes" as it was.     *)
(***************************************************************************)
C17_OtherFailuresSwallowed ==
    [][lastEvent'.wrote = "other" =>
         /\ lastEvent'.op = "fire"
         /\ lastEvent'.alerts = 0
         /\ ~lastEvent'.uncaught
         /\ stored' = stored
         /\ timers' \subseteq timers
         /\ Cardinality(timers') = Cardinality(timers) - 1
         /\ debounceTimer' = debounceTimer
         /\ pasteYields' = pasteYields]_vars

\* a write that would have replaced an earlier snapshot has thrown an error
\* other than quota
C17_Witness ==
    /\ lastEvent.op = "fire"
    /\ lastEvent.wrote = "other"
    /\ stored.has
    /\ stored # Value(Serialize(notesContainer))
    /\ timers = {}

(***************************************************************************)
(* C18.  As claimed: the Availability Probe is side-effect-free.  Every    *)
(* step that runs isLocalStorageAvailable lets no exception out and        *)
(* leaves the medium's content as it was: the entry under the probe's own  *)
(* key "test", if there was one, is still there, and the value under       *)
(* "notes" is unchanged.                                                   *)
(***************************************************************************)
C18_AsClaimed ==
    [][lastEvent'.probe # "none" =>
         /\ ~lastEvent'.uncaught
         /\ hasTestEntry' = hasTestEntry
         /\ stored' = stored]_vars

(***************************************************************************)
(* C19.  Single writer.  The value under "notes" changes only in a step of *)
(* the debounce timer's callback whose write succeeds: startup (probe and  *)
(* loadNotes), createNote, the click, input and paste handlers, the paste  *)
(* callback and destroy leave it unchanged.  The key is read only by       *)
(* loadNotes, in the startup step, which leaves the loading state: one     *)
(* read for each page load.                                                *)
(***************************************************************************)
C19_SingleWriter ==
    [][/\ stored' # stored => (lastEvent'.op = "fire" /\ lastEvent'.wrote = "ok")
       /\ lastEvent'.op \in {"startup", "create", "click", "input", "paste",
                              "pasteYield", "destroy"} => stored' = stored
       /\ lastEvent'.read # "none" =>
            /\ lastEvent'.op = "startup"
            /\ pc = "loading"
            /\ pc' = "running"]_vars

\* a startup has read the snapshot an earlier session's timer wrote
C19_Witness ==
    /\ lastEvent.op = "startup"
    /\ lastEvent.read = "value"
    /\ stored.has
    /\ pc = "running"

(***************************************************************************)
(* The program with a medium that stays available and whose writes         *)
(* succeed, under create, delete, edit and paste events only, and a fair   *)
(* host: the clock goes on while a timer waits for its due time, a due     *)
(* timer's callback is run, and a queued setTimeout(..., 0) callback is    *)
(* run.  The event budget ends the events.  The medium holds nothing under *)
(* the probe's key.                                                        *)
(***************************************************************************)
LiveInit == Init /\ domOk /\ medium = "ok" /\ ~hasTestEntry

\* the clock beyond MaxTime: it runs on while a pending timer is not yet due
AwaitDue ==
    /\ now + TickMs > MaxTime
    /\ \E t \in timers : now < t.due
    /\ TimePasses

RunPasteCallback == UNCHANGED events /\ pasteCallback

RunTimer == UNCHANGED events /\ \E t \in timers : timerCallback(t, "ok")

RunClock == UNCHANGED events /\ (Tick \/ AwaitDue)

\* the user's events fall within the first MaxTime milliseconds
UserActs == CountEvent /\ now <= MaxTime

LiveNext ==
    \/ UNCHANGED events /\ \E r \in {"ok", "throws"} : init(r)
    \/ UserActs /\ Len(notesContainer) < MaxNotes /\ createNote
    \/ UserActs /\ \E i \in 1..MaxNotes : handleNotesClickDelete(i)
    \/ UserActs /\ \E i \in 1..MaxNotes : \E t \in Texts : \E c \in Ctls :
                       handleNotesInput(i, t, c)
    \/ UserActs /\ \E i \in 1..MaxNotes : \E t \in Texts : pasteListener(i, t)
    \/ RunPasteCallback
    \/ RunTimer
    \/ RunClock

SpecLive ==
    /\ LiveInit
    /\ [][LiveNext]_vars
    /\ WF_vars(RunPasteCallback)
    /\ WF_vars(RunTimer)
    /\ WF_vars(RunClock)

\* a save is owed: updateStorage has been called, or a paste's callback is queued
SaveOwed == lastReqAt # 0 \/ pasteYields > 0

Persisted ==
    /\ timers = {}
    /\ pasteYields = 0
    /\ stored = Value(Serialize(notesContainer))

(***************************************************************************)
(* C20.  Eventual persistence.  With the medium available and its writes   *)
(* succeeding, under a fair host timer queue: whenever a debounce timer is *)
(* pending or a paste callback is queued, a timer callback eventually      *)
(* runs; and once the create, delete, edit and paste events have ended,    *)
(* from some point on no timer is pending, no callback is queued, and the  *)
(* value under "notes" is the serialization of the live tree (whenever a   *)
(* save was asked for at all).                                             *)
(***************************************************************************)
C20_EventualPersistence ==
    /\ (timers # {} \/ pasteYields > 0) ~> (lastEvent.op = "fire" /\ lastEvent.wrote = "ok")
    /\ <>[](SaveOwed => Persisted)

\* after two or more events the tree, unlike the page's markup, is stored
\* and nothing is pending
C20_Witness ==
    /\ events >= 2
    /\ lastReqAt # 0
    /\ Persisted
    /\ notesContainer # staticContent
    /\ notesContainer # <<>>

(***************************************************************************)
(* C21.  As claimed: teardown.  Once destroy has been called on the        *)
(* application, no setItem("notes") is attempted any more: no step of the  *)
(* debounce timer's callback happens in a state in which the instance is   *)
(* destroyed, whatever events came before destroy (a paste whose callback  *)
(* is still queued included) and whatever click, input or paste events     *)
(* come after it.                                                          *)
(***************************************************************************)
C21_AsClaimed == destroyed => lastEvent.op # "fire"

(***************************************************************************)
(* C22.  Notification only on quota: a step shows at most one alert, and   *)
(* a step that shows one is a step of the debounce timer's callback whose  *)
(* setItem("notes") threw QuotaExceededError.  In particular no alert is   *)
(* shown by startup, by a step whose read of "notes" threw, by a step      *)
(* whose probe reported false, or by a write that threw another error.     *)
(***************************************************************************)
C22_AlertOnlyOnQuota ==
    /\ lastEvent.alerts \in {0, 1}
    /\ lastEvent.alerts = 1 => (lastEvent.op = "fire" /\ lastEvent.wrote = "quota")
    /\ lastEvent.op = "startup" => lastEvent.alerts = 0
    /\ lastEvent.read = "throws" => lastEvent.alerts = 0
    /\ lastEvent.probe = "no" => lastEvent.alerts = 0
    /\ lastEvent.wrote = "other" => lastEvent.alerts = 0

\* the alert of a write that met a full medium
C22_Witness ==
    /\ lastEvent.op = "fire"
    /\ lastEvent.wrote = "quota"
    /\ lastEvent.alerts = 1
    /\ ~lastEvent.availAtWrite
    /\ medium = "full"

(***************************************************************************)
(* C23.  Non-persistent session.  As long as every probe of the session    *)
(* has reported false: no debounce timer is pending or was ever scheduled  *)
(* (this.debounceTimer is still null), no step is a timer callback, no     *)
(* setItem("notes") is attempted, the value under "notes" stays what it    *)
(* was, and no alert is shown; and a create or a delete step changes the   *)
(* tree by the same appendChild and parentElement.remove() as in a         *)
(* session whose medium is available, each still calling updateStorage.    *)
(***************************************************************************)
C23_NonPersistentSession ==
    [][~probedOk' =>
         /\ timers' = {}
         /\ debounceTimer' = 0
         /\ lastEvent'.op # "fire"
         /\ lastEvent'.wrote = "none"
         /\ lastEvent'.alerts = 0
         /\ burstWrites' = 0
         /\ stored' = stored
         /\ lastEvent'.op = "create" =>
               /\ notesContainer' = appendChild(notesContainer, NewItem(now))
               /\ lastEvent'.reqs = 1
               /\ lastEvent'.probe = "no"
         /\ (lastEvent'.op = "click" /\ lastEvent'.target = "ctl") =>
               /\ notesContainer' = removeParentElement(notesContainer, lastEvent'.idx)
               /\ lastEvent'.reqs = 1
               /\ lastEvent'.probe = "no"]_vars

\* a create and then a delete in a session whose every probe reported false
C23_Witness ==
    /\ ~probedOk
    /\ pc = "running"
    /\ lastEvent.op = "click"
    /\ lastEvent.target = "ctl"
    /\ lastEvent.probe = "no"
    /\ burstCalls >= 2
    /\ Len(notesContainer) < Len(staticContent) + 1
    /\ timers = {}

\* new differs from old in one Item at most: one Item added, one Item
\* removed, or the content of one Item changed
LocalChange(old, new) ==
    \/ new = old
    \/ \E i \in 1..Len(new) : old = RemoveAt(new, i)
    \/ \E i \in 1..Len(old) : new = RemoveAt(old, i)
    \/ /\ Len(new) = Len(old)
       /\ \E i \in 1..Len(old) :
             /\ new[i].id = old[i].id
             /\ \A j \in 1..Len(old) : j # i => new[j] = old[j]

(***************************************************************************)
(* C24.  Rehydration happens at most once and only at startup.  The        *)
(* startup step, the only step that reads "notes" and the step that ends   *)
(* the loading state, replaces the tree by the parse of the value read     *)
(* exactly when that value is a non-empty string; when the key is unset or *)
(* holds the empty string it leaves the tree exactly as it was.  No create,*)
(* click, input, paste, paste callback, timer callback or destroy step     *)
(* replaces the tree: each changes one Item at most, and only steps in the *)
(* running state are such steps.                                           *)
(***************************************************************************)
C24_RehydrationOnce ==
    [][/\ lastEvent'.op = "startup" =>
            /\ pc = "loading"
            /\ pc' # "loading"
            /\ (lastEvent'.read = "value" /\ stored.val # <<>>) =>
                  notesContainer' = Parse(stored.val)
            /\ (lastEvent'.read = "value" /\ stored.val = <<>>) =>
                  notesContainer' = notesContainer
            /\ lastEvent'.read \in {"absent", "throws", "none"} =>
                  notesContainer' = notesContainer
       /\ lastEvent'.op \in {"create", "click", "input", "paste", "pasteYield",
                              "fire", "destroy"} =>
            /\ pc = "running"
            /\ lastEvent'.read = "none"
            /\ LocalChange(notesContainer, notesContainer')]_vars

\* a startup has replaced the page's markup by a stored tree of two Items
C24_Witness ==
    /\ lastEvent.op = "startup"
    /\ lastEvent.read = "value"
    /\ stored.val # <<>>
    /\ notesContainer = Parse(stored.val)
    /\ Len(notesContainer) = 2
    /\ Len(staticContent) = 1

====
